---- MODULE Spec2Model ----
(***************************************************************************)
(* A model of rogpeppe/blobstore: a content-addressed blob store layered   *)
(* on the files collection of a MongoDB GridFS.                            *)
(*                                                                         *)
(* Two versions of Storage are modelled:                                   *)
(*   - the reference-counting store of src/store.go (unique filename       *)
(*     index, Create / Remove / Open / Check);                             *)
(*   - the garbage-collecting store of src/unnamed/part_001, lines         *)
(*     138-303 (non-unique filename index, Create / Open /                 *)
(*     CollectGarbage).                                                    *)
(*                                                                         *)
(* Every call of the database driver is one atomic step; everything a      *)
(* method does between two driver calls belongs to the step of the later   *)
(* call.  Clients are processes that are either idle or inside one call.   *)
(***************************************************************************)
EXTENDS Integers, Sequences, FiniteSets, TLC

VARIABLES
    files,      \* the GridFS files collection: a set of documents
    pc,         \* pc[p]: where client p is inside its current call
    arg,        \* arg[p]: the arguments of p's current (or last) call
    written,    \* written[p]: bytes p has copied into its GridFile so far
    ret,        \* ret[p]: what p's last call returned
    calls,      \* calls[p]: number of calls p has issued
    held,       \* history: held[p][h] = Creates of h by p that returned nil
                \* minus Removes of h that p has started since
    rogue,      \* history: some Remove was started by a client that held
                \* no reference of its own
    now,        \* the clock time.Now() reads (garbage-collecting store)
    ctime,      \* ctime[p]: the createtime p's Create gave f.SetMeta
    gc          \* gc[g]: the state of CollectGarbage pass g

vars == <<files, pc, arg, written, ret, calls, held, rogue, now, ctime, gc>>

\* What the reference-counting store never touches.
gcv == <<now, ctime, gc>>

\* What the garbage-collecting store never touches.
rcv == <<held, rogue>>

----------------------------------------------------------------------------
(* Bounds *)

NumProcs == 2       \* concurrent clients of the general specification
SeqCalls == 5       \* calls of the single client of the sequential specification
NumUploads == 3     \* simultaneous uploads of one blob
Workers == 2        \* workers of the create/remove stress workload
Iterations == 2     \* Create/Remove pairs each worker performs
NumCreators == 2    \* concurrent clients of the garbage-collecting store
GCCalls == 3        \* Creates those clients issue, all together, in SpecGCCalls
MaxTime == 1        \* the clock runs from 0 to MaxTime
MaxCalls == 3       \* calls the clients issue, all together, in the general specification

----------------------------------------------------------------------------
(* Contents and hashes *)

\* The byte sequences readers yield.  <<1>> is a proper prefix of <<1, 2>>, so
\* a half-written copy of the second is a complete copy of the first.
Data == { <<1>>, <<1, 2>> }

\* sha256 followed by %x: modelled by an injective function of the byte
\* sequence (bijective base-3 numeration), computed byte by byte as the hash
\* accumulator is fed.
RECURSIVE HashFrom(_, _)
HashFrom(acc, s) ==
    IF s = <<>> THEN acc ELSE HashFrom(3 * acc + Head(s), Tail(s))

Hash(s) == HashFrom(0, s)

Hashes == { Hash(d) : d \in Data }

\* The content whose hash is h.
DataOf(h) == CHOOSE d \in Data : Hash(d) = h

\* A reader: the bytes it yields, and whether it ends with an error instead
\* of io.EOF.
Readers == [data : Data, fails : BOOLEAN]

GoodReaders == [data : Data, fails : {FALSE}]

NoReader == [data |-> <<>>, fails |-> FALSE]

----------------------------------------------------------------------------
(* The store's keys *)

hashName(h) == <<"blob", h>>

\* "deleted-" + bson.NewObjectId().Hex(): an object id is unique to the call
\* that draws it.
NewName(p, n) == <<"deleted", p, n>>

\* The documents of the files collection with the given filename.
Named(fs, name) == { f \in fs : f.filename = name }

\* The _id a GridFile gets in fs.Create: unique to the call.
NewId(p, n) == <<p, n>>

----------------------------------------------------------------------------
(* The driver's primitives on the files collection *)

\* Mutant: no unique index on filename.
IsDupNever(fs, name) == FALSE

\* The unique index on filename (New) makes an insert fail with a
\* duplicate-key error when a document of that name exists.
IsDup(fs, name) == Named(fs, name) # {}

\* Files.Update(filename = name, $inc metadata.refcount by): the collection
\* after one matching document has been updated.  Called only when one exists.
IncOne(fs, f, by) == (fs \ {f}) \cup { [f EXCEPT !.refcount = @ + by] }

\* Mutant: the rename is not gated on the reference count.
RenameMatchesAnyCount(f, blobRef) == f.filename = blobRef

\* Mutant: Apply without ReturnNew hands back the count before the decrement.
ReturnedCountOld(f) == f.refcount

\* The count Apply returns to Remove (ReturnNew: true): the decremented one.
ReturnedCount(f) == f.refcount - 1

\* Mutant: a Remove that finds no document reports success.
ApplyNotFoundNil == "nil"

\* The error of Apply when no document matches, which Remove returns as it
\* is: mgo.ErrNotFound.
ApplyNotFound == "notfound"

\* The selector of Remove's conditional rename.
RenameMatches(f, blobRef) == f.filename = blobRef /\ f.refcount = 0

\* Mutant: the fallback increment reports that the content already existed.
FallbackExistsTrue == TRUE

\* What Create reports as alreadyExists when its fallback increment succeeds:
\* the content was read from the reader, so false.
FallbackExists == FALSE

\* Mutant: the digest is not compared.
HashMatchesAlways(w, h) == TRUE

\* copyAndCheckHash's comparison of the accumulated digest with the claimed
\* hash.
HashMatches(w, h) == Hash(w) = h

----------------------------------------------------------------------------
(* Results *)

\* What a call returned: op is the method, err its error ("nil" for none),
\* exists the boolean result of Create and Check, nread the number of bytes
\* the call took from its reader, data the content behind the stream Open
\* returned, size the size Check returned.
NoRet ==
    [op |-> "none", exists |-> FALSE, err |-> "nil", nread |-> 0,
     data |-> <<>>, size |-> 0]

CreateRet(ex, e, n) == [NoRet EXCEPT !.op = "Create", !.exists = ex, !.err = e, !.nread = n]

RemoveRet(e) == [NoRet EXCEPT !.op = "Remove", !.err = e]

OpenRet(e, d) == [NoRet EXCEPT !.op = "Open", !.err = e, !.data = d]

CheckRet(ex, n) == [NoRet EXCEPT !.op = "Check", !.exists = ex, !.size = n]

Procs == DOMAIN pc

\* p's call returns r; the reader it was given is dropped.
Return(p, r) ==
    /\ pc' = [pc EXCEPT ![p] = "idle"]
    /\ ret' = [ret EXCEPT ![p] = r]
    /\ arg' = [arg EXCEPT ![p].r = NoReader]

\* p's call goes on at l.
Goto(p, l) ==
    /\ pc' = [pc EXCEPT ![p] = l]
    /\ UNCHANGED <<ret, arg>>

\* A Create of h by p returned nil: p holds one more reference.
Acquire(p, h) == held' = [held EXCEPT ![p][h] = @ + 1]

----------------------------------------------------------------------------
(* Storage.Create of the reference-counting store *)

\* A client calls Create(h, r).
BeginCreate(p, h, r) ==
    /\ pc[p] = "idle"
    /\ pc' = [pc EXCEPT ![p] = "inc"]
    /\ arg' = [arg EXCEPT ![p] = [h |-> h, r |-> r, pos |-> 0]]
    /\ calls' = [calls EXCEPT ![p] = @ + 1]
    /\ ret' = [ret EXCEPT ![p] = NoRet]
    /\ written' = [written EXCEPT ![p] = <<>>]
    /\ UNCHANGED <<files, held, rogue>>
    /\ UNCHANGED gcv

\* The first incRefCount.  Found: return (true, nil).  ErrNotFound:
\* fs.Create opens a GridFile, which touches nothing in the collection.
CreateInc(p) ==
    /\ pc[p] = "inc"
    /\ LET blobRef == hashName(arg[p].h) IN
       IF Named(files, blobRef) # {}
       THEN /\ \E f \in Named(files, blobRef) : files' = IncOne(files, f, 1)
            /\ Return(p, CreateRet(TRUE, "nil", arg[p].pos))
            /\ Acquire(p, arg[p].h)
       ELSE /\ Goto(p, "copy")
            /\ UNCHANGED <<files, held>>
    /\ UNCHANGED <<written, calls, rogue>>
    /\ UNCHANGED gcv

\* io.Copy moves the next byte of the reader into the GridFile (its chunks
\* carry the file's own id and are visible under no filename).
CreateCopy(p) ==
    /\ pc[p] = "copy"
    /\ arg[p].pos < Len(arg[p].r.data)
    /\ written' = [written EXCEPT ![p] = Append(@, arg[p].r.data[arg[p].pos + 1])]
    /\ arg' = [arg EXCEPT ![p].pos = @ + 1]
    /\ UNCHANGED <<files, pc, ret, calls, held, rogue>>
    /\ UNCHANGED gcv

\* The reader is exhausted.  A reader error or a digest that differs from
\* the claimed hash: f.Abort, f.Close removes the chunks, Create returns the
\* error.  Otherwise Create goes on to f.Close.
CreateVerify(p) ==
    /\ pc[p] = "copy"
    /\ arg[p].pos = Len(arg[p].r.data)
    /\ IF arg[p].r.fails
       THEN /\ Return(p, CreateRet(FALSE, "reader", arg[p].pos))
            /\ written' = [written EXCEPT ![p] = <<>>]
       ELSE IF ~HashMatches(written[p], arg[p].h)
       THEN /\ Return(p, CreateRet(FALSE, "mismatch", arg[p].pos))
            /\ written' = [written EXCEPT ![p] = <<>>]
       ELSE /\ Goto(p, "close")
            /\ UNCHANGED written
    /\ UNCHANGED <<files, calls, held, rogue>>
    /\ UNCHANGED gcv

\* f.Close inserts the file's document, with refcount 1 and the name
\* blobRef.  A duplicate-key error: the chunks are removed and Create falls
\* back to a second incRefCount.
CreateClose(p) ==
    /\ pc[p] = "close"
    /\ LET blobRef == hashName(arg[p].h) IN
       IF IsDup(files, blobRef)
       THEN /\ Goto(p, "inc2")
            /\ UNCHANGED <<files, held>>
       ELSE /\ files' = files \cup
                   { [id |-> NewId(p, calls[p]), filename |-> blobRef,
                      refcount |-> 1, data |-> written[p]] }
            /\ Return(p, CreateRet(FALSE, "nil", arg[p].pos))
            /\ Acquire(p, arg[p].h)
    /\ written' = [written EXCEPT ![p] = <<>>]
    /\ UNCHANGED <<calls, rogue>>
    /\ UNCHANGED gcv

\* The fallback incRefCount after losing the commit race.  Found: return
\* (false, nil).  ErrNotFound: "duplicate blob removed at an inopportune
\* moment".
CreateInc2(p) ==
    /\ pc[p] = "inc2"
    /\ LET blobRef == hashName(arg[p].h) IN
       IF Named(files, blobRef) # {}
       THEN /\ \E f \in Named(files, blobRef) : files' = IncOne(files, f, 1)
            /\ Return(p, CreateRet(FallbackExists, "nil", arg[p].pos))
            /\ Acquire(p, arg[p].h)
       ELSE /\ Return(p, CreateRet(FALSE, "race", arg[p].pos))
            /\ UNCHANGED <<files, held>>
    /\ UNCHANGED <<written, calls, rogue>>
    /\ UNCHANGED gcv

----------------------------------------------------------------------------
(* Storage.Remove of the reference-counting store *)

\* A client calls Remove(h).  History: the call gives up one of the client's
\* own references, or is marked as rogue when the client holds none.
BeginRemove(p, h) ==
    /\ pc[p] = "idle"
    /\ pc' = [pc EXCEPT ![p] = "dec"]
    /\ arg' = [arg EXCEPT ![p] = [h |-> h, r |-> NoReader, pos |-> 0]]
    /\ calls' = [calls EXCEPT ![p] = @ + 1]
    /\ ret' = [ret EXCEPT ![p] = NoRet]
    /\ IF held[p][h] > 0
       THEN held' = [held EXCEPT ![p][h] = @ - 1] /\ UNCHANGED rogue
       ELSE rogue' = TRUE /\ UNCHANGED held
    /\ UNCHANGED <<files, written>>
    /\ UNCHANGED gcv

\* Find(filename = blobRef).Apply($inc refcount -1, ReturnNew).  No
\* document: Apply's ErrNotFound is returned.  New count not 0: return nil.
RemoveDec(p) ==
    /\ pc[p] = "dec"
    /\ LET blobRef == hashName(arg[p].h) IN
       IF Named(files, blobRef) = {}
       THEN /\ Return(p, RemoveRet(ApplyNotFound))
            /\ UNCHANGED files
       ELSE \E f \in Named(files, blobRef) :
              /\ files' = IncOne(files, f, -1)
              /\ IF ReturnedCount(f) # 0
                 THEN Return(p, RemoveRet("nil"))
                 ELSE Goto(p, "rename")
    /\ UNCHANGED <<written, calls, held, rogue>>
    /\ UNCHANGED gcv

\* Update(filename = blobRef and refcount = 0, $set filename = newName).
\* ErrNotFound: someone else got there first, return nil.
RemoveRename(p) ==
    /\ pc[p] = "rename"
    /\ LET blobRef == hashName(arg[p].h)
           match == { f \in files : RenameMatches(f, blobRef) } IN
       IF match = {}
       THEN /\ Return(p, RemoveRet("nil"))
            /\ UNCHANGED files
       ELSE /\ \E f \in match :
                 files' = (files \ {f}) \cup
                     { [f EXCEPT !.filename = NewName(p, calls[p])] }
            /\ Goto(p, "delete")
    /\ UNCHANGED <<written, calls, held, rogue>>
    /\ UNCHANGED gcv

\* Mutant: fs.Remove deletes nothing.
RemoveDeleteKeeps(p) ==
    /\ pc[p] = "delete"
    /\ Return(p, RemoveRet("nil"))
    /\ UNCHANGED <<files, written, calls, held, rogue>>
    /\ UNCHANGED gcv

\* fs.Remove(newName) deletes the documents of that name and their chunks.
RemoveDelete(p) ==
    /\ pc[p] = "delete"
    /\ files' = files \ Named(files, NewName(p, calls[p]))
    /\ Return(p, RemoveRet("nil"))
    /\ UNCHANGED <<written, calls, held, rogue>>
    /\ UNCHANGED gcv

----------------------------------------------------------------------------
(* Storage.Open and Storage.Check *)

\* fs.Open(blobRef): the stream over the document's content, or ErrNotFound.
Open(p, h) ==
    /\ pc[p] = "idle"
    /\ arg' = [arg EXCEPT ![p] = [h |-> h, r |-> NoReader, pos |-> 0]]
    /\ calls' = [calls EXCEPT ![p] = @ + 1]
    /\ IF Named(files, hashName(h)) = {}
       THEN ret' = [ret EXCEPT ![p] = OpenRet("notfound", <<>>)]
       ELSE \E f \in Named(files, hashName(h)) :
              ret' = [ret EXCEPT ![p] = OpenRet("nil", f.data)]
    /\ UNCHANGED <<files, pc, written, held, rogue>>
    /\ UNCHANGED gcv

\* Mutant: the size of the file is not read.
SizeZero(f) == 0

\* f.Size(): the length of the file's content.
Size(f) == Len(f.data)

\* fs.Open(blobRef), then f.Size(): (true, size, nil) or (false, 0, nil).
Check(p, h) ==
    /\ pc[p] = "idle"
    /\ arg' = [arg EXCEPT ![p] = [h |-> h, r |-> NoReader, pos |-> 0]]
    /\ calls' = [calls EXCEPT ![p] = @ + 1]
    /\ IF Named(files, hashName(h)) = {}
       THEN ret' = [ret EXCEPT ![p] = CheckRet(FALSE, 0)]
       ELSE \E f \in Named(files, hashName(h)) :
              ret' = [ret EXCEPT ![p] = CheckRet(TRUE, Size(f))]
    /\ UNCHANGED <<files, pc, written, held, rogue>>
    /\ UNCHANGED gcv

----------------------------------------------------------------------------
(* The general specification: NumProcs clients issuing up to MaxCalls calls *)
(* of any method with any arguments, every interleaving of their driver    *)
(* calls.                                                                  *)

\* The state of a store New has just returned, with the given clients.
InitWith(ps) ==
    /\ files = {}
    /\ pc = [p \in ps |-> "idle"]
    /\ arg = [p \in ps |-> [h |-> 0, r |-> NoReader, pos |-> 0]]
    /\ written = [p \in ps |-> <<>>]
    /\ ret = [p \in ps |-> NoRet]
    /\ calls = [p \in ps |-> 0]
    /\ held = [p \in ps |-> [h \in Hashes |-> 0]]
    /\ rogue = FALSE
    /\ now = 0
    /\ ctime = [p \in ps |-> 0]
    /\ gc = << >>

Init == InitWith(1 .. NumProcs)

\* The number of calls the clients have issued.
RECURSIVE SumCalls(_)
SumCalls(ps) ==
    IF ps = {} THEN 0
    ELSE LET q == CHOOSE q \in ps : TRUE IN calls[q] + SumCalls(ps \ {q})

MayCall == SumCalls(Procs) < MaxCalls

Next ==
    \/ MayCall /\ \E p \in Procs, h \in Hashes, r \in Readers : BeginCreate(p, h, r)
    \/ MayCall /\ \E p \in Procs, h \in Hashes : BeginRemove(p, h)
    \/ MayCall /\ \E p \in Procs, h \in Hashes : Open(p, h)
    \/ MayCall /\ \E p \in Procs, h \in Hashes : Check(p, h)
    \/ \E p \in Procs : CreateInc(p)
    \/ \E p \in Procs : CreateCopy(p)
    \/ \E p \in Procs : CreateVerify(p)
    \/ \E p \in Procs : CreateClose(p)
    \/ \E p \in Procs : CreateInc2(p)
    \/ \E p \in Procs : RemoveDec(p)
    \/ \E p \in Procs : RemoveRename(p)
    \/ \E p \in Procs : RemoveDelete(p)

Spec == Init /\ [][Next]_vars

----------------------------------------------------------------------------
(* The sequential specification: one client that issues SeqCalls calls,    *)
(* each Create with the content its hash names.  A lone client never sees  *)
(* a duplicate-key error, so the fallback increment is no step here.       *)

InitSeq == InitWith({1})

MayCallSeq == SumCalls(Procs) < SeqCalls

NextSeq ==
    \/ MayCallSeq /\ \E p \in Procs, h \in Hashes :
          BeginCreate(p, h, [data |-> DataOf(h), fails |-> FALSE])
    \/ MayCallSeq /\ \E p \in Procs, h \in Hashes : BeginRemove(p, h)
    \/ MayCallSeq /\ \E p \in Procs, h \in Hashes : Open(p, h)
    \/ MayCallSeq /\ \E p \in Procs, h \in Hashes : Check(p, h)
    \/ \E p \in Procs : CreateInc(p)
    \/ \E p \in Procs : CreateCopy(p)
    \/ \E p \in Procs : CreateVerify(p)
    \/ \E p \in Procs : CreateClose(p)
    \/ \E p \in Procs : RemoveDec(p)
    \/ \E p \in Procs : RemoveRename(p)
    \/ \E p \in Procs : RemoveDelete(p)

SpecSeq == InitSeq /\ [][NextSeq]_vars

----------------------------------------------------------------------------
(* TestSimultaneousUploads: NumUploads clients each call Create once, all  *)
(* for the same hash and content, and nobody calls Remove.                 *)

UploadData == <<1, 2>>

UploadHash == Hash(UploadData)

InitUploads == InitWith(1 .. NumUploads)

NextUploads ==
    \/ \E p \in Procs :
          /\ calls[p] = 0
          /\ BeginCreate(p, UploadHash, [data |-> UploadData, fails |-> FALSE])
    \/ \E p \in Procs : CreateInc(p)
    \/ \E p \in Procs : CreateCopy(p)
    \/ \E p \in Procs : CreateVerify(p)
    \/ \E p \in Procs : CreateClose(p)
    \/ \E p \in Procs : CreateInc2(p)

SpecUploads == InitUploads /\ [][NextUploads]_vars

----------------------------------------------------------------------------
(* TestConcurrentCreateRemove: Workers clients, each Iterations times      *)
(* Create(hash, data) and then, whatever Create returned, Remove(hash).    *)

InitTest == InitWith(1 .. Workers)

NextTest ==
    \/ \E p \in Procs :
          /\ calls[p] < 2 * Iterations
          /\ calls[p] % 2 = 0
          /\ BeginCreate(p, UploadHash, [data |-> UploadData, fails |-> FALSE])
    \/ \E p \in Procs :
          /\ calls[p] % 2 = 1
          /\ BeginRemove(p, UploadHash)
    \/ \E p \in Procs : CreateInc(p)
    \/ \E p \in Procs : CreateCopy(p)
    \/ \E p \in Procs : CreateVerify(p)
    \/ \E p \in Procs : CreateClose(p)
    \/ \E p \in Procs : CreateInc2(p)
    \/ \E p \in Procs : RemoveDec(p)
    \/ \E p \in Procs : RemoveRename(p)
    \/ \E p \in Procs : RemoveDelete(p)

SpecTest == InitTest /\ [][NextTest]_vars

\* Every worker has finished its last Remove.
TestDone == \A p \in Procs : pc[p] = "idle" /\ calls[p] = 2 * Iterations

----------------------------------------------------------------------------
(* The garbage-collecting store (src/unnamed/part_001, lines 138-303).     *)
(* Its documents carry metadata.createtime instead of a reference count,   *)
(* and its filename index is not unique.                                   *)

\* The name CollectGarbage gives the documents it is about to delete.
Deleted == <<"deleted">>

\* strings.HasPrefix(name, blobRefPrefix)
IsBlob(name) == name[1] = "blob"

\* doc.Filename[len(blobRefPrefix):]
HashOfName(name) == name[2]

\* Mutant: the filter is never consulted.
FilterLookupNever(filter, h) == FALSE

\* Mutant: the filter reports every hash as referenced.
FilterLookupAlways(filter, h) == TRUE

\* filter.Lookup: the Bloom filter is any superset of the hashes added.
FilterLookup(filter, h) == h \in filter

\* The order of Sort("filename"): "blob-..." names by their hash, before
\* "deleted".
NameLess(a, b) == IsBlob(a) /\ (~IsBlob(b) \/ HashOfName(a) < HashOfName(b))

\* n copies of x.
RECURSIVE Repeat(_, _)
Repeat(x, n) == IF n = 0 THEN <<>> ELSE <<x>> \o Repeat(x, n - 1)

\* The filenames of the documents fs, one entry per document, sorted.
RECURSIVE SortedNames(_)
SortedNames(fs) ==
    IF fs = {} THEN <<>>
    ELSE LET names == { f.filename : f \in fs }
             least == CHOOSE a \in names : \A b \in names \ {a} : NameLess(a, b)
         IN  Repeat(least, Cardinality(Named(fs, least)))
                 \o SortedNames(fs \ Named(fs, least))

\* Mutant: the selectors do not look at createtime.
OlderAlways(f, before) == TRUE

\* The selector of the scan and of the conditional rename: createtime < before.
Older(f, before) == f.createtime < before

\* History: every pass that has scanned documents of h and has not reached
\* them yet records that a Create has refreshed them to a time not older
\* than its cutoff.
NoteRefresh(h) ==
    [g \in DOMAIN gc |->
        IF /\ gc[g].pc \in {"iter", "mark"}
           /\ \E i \in DOMAIN gc[g].scan : gc[g].scan[i] = hashName(h)
           /\ gc[g].prev # hashName(h)
           /\ ~(now < gc[g].before)
        THEN [gc[g] EXCEPT !.refreshed = @ \cup {h}]
        ELSE gc[g]]

\* A client calls Create(h, r): UpdateAll(filename = blobRef, $set
\* createtime = time.Now()).  Some document updated: return (true, nil)
\* without reading r.  None: fs.Create opens a GridFile.
GCCreateTouch(p, h, r) ==
    /\ pc[p] = "idle"
    /\ calls' = [calls EXCEPT ![p] = @ + 1]
    /\ written' = [written EXCEPT ![p] = <<>>]
    /\ LET blobRef == hashName(h) IN
       IF Named(files, blobRef) # {}
       THEN /\ files' = { IF f.filename = blobRef
                          THEN [f EXCEPT !.createtime = now] ELSE f : f \in files }
            /\ ret' = [ret EXCEPT ![p] = CreateRet(TRUE, "nil", 0)]
            /\ arg' = [arg EXCEPT ![p] = [h |-> h, r |-> NoReader, pos |-> 0]]
            /\ gc' = NoteRefresh(h)
            /\ UNCHANGED pc
       ELSE /\ pc' = [pc EXCEPT ![p] = "copy"]
            /\ arg' = [arg EXCEPT ![p] = [h |-> h, r |-> r, pos |-> 0]]
            /\ ret' = [ret EXCEPT ![p] = NoRet]
            /\ UNCHANGED <<files, gc>>
    /\ UNCHANGED <<rcv, now, ctime>>

\* copyAndCheckHash writes the reader's bytes to the GridFile, which no
\* other client can see.  An error or a mismatch: f.Abort, f.Close, the
\* error is returned.  Otherwise f.SetMeta(createtime: time.Now()).
GCCreateWrite(p) ==
    /\ pc[p] = "copy"
    /\ LET data == arg[p].r.data IN
       IF arg[p].r.fails
       THEN /\ Return(p, CreateRet(FALSE, "reader", Len(data)))
            /\ UNCHANGED <<written, ctime>>
       ELSE IF ~HashMatches(data, arg[p].h)
       THEN /\ Return(p, CreateRet(FALSE, "mismatch", Len(data)))
            /\ UNCHANGED <<written, ctime>>
       ELSE /\ pc' = [pc EXCEPT ![p] = "close"]
            /\ arg' = [arg EXCEPT ![p].pos = Len(data)]
            /\ written' = [written EXCEPT ![p] = data]
            /\ ctime' = [ctime EXCEPT ![p] = now]
            /\ UNCHANGED ret
    /\ UNCHANGED <<files, calls, rcv, now, gc>>

\* f.Close inserts the file's document under blobRef; no index refuses it.
\* The GridFile and its metadata are gone from the client.
GCCreateClose(p) ==
    /\ pc[p] = "close"
    /\ files' = files \cup
           { [id |-> NewId(p, calls[p]), filename |-> hashName(arg[p].h),
              createtime |-> ctime[p], data |-> written[p]] }
    /\ Return(p, CreateRet(FALSE, "nil", arg[p].pos))
    /\ written' = [written EXCEPT ![p] = <<>>]
    /\ ctime' = [ctime EXCEPT ![p] = 0]
    /\ UNCHANGED <<calls, rcv, now, gc>>

\* Time passes.
Tick ==
    /\ now < MaxTime
    /\ now' = now + 1
    /\ UNCHANGED <<files, pc, arg, written, ret, calls, rcv, ctime, gc>>

\* A pass that has not been called.  filter holds every hash of refs; scan
\* is what the iterator has yet to yield.  History: scanned is all that the
\* query returned, refreshed is explained at NoteRefresh.
NoPass ==
    [pc |-> "idle", filter |-> {}, before |-> 0,
     scan |-> <<>>, prev |-> <<>>, err |-> "nil",
     scanned |-> <<>>, refreshed |-> {}]

Passes == DOMAIN gc

\* CollectGarbage(refs, before) is called, reads refs into its filter and
\* issues query.Iter(): the documents older than before, sorted by
\* filename; one batch (5000) holds them all.
GCBegin(g, refs, filter, before) ==
    /\ gc[g].pc = "idle"
    /\ refs \subseteq filter
    /\ gc' = [gc EXCEPT ![g] =
                 [NoPass EXCEPT !.pc = "iter", !.filter = filter, !.before = before,
                                !.scan = SortedNames({ f \in files : Older(f, before) }),
                                !.scanned = SortedNames({ f \in files : Older(f, before) })]]
    /\ UNCHANGED <<files, pc, arg, written, ret, calls, rcv, now, ctime>>

\* The scanned document has the filename of the one before it.
AtDuplicate(g) ==
    /\ gc[g].pc = "iter"
    /\ gc[g].scan # <<>>
    /\ IsBlob(Head(gc[g].scan))
    /\ Head(gc[g].scan) = gc[g].prev

\* Files.Remove(doc.Filename) of a duplicate: one document of that filename
\* is removed, or none is left (ErrNotFound, ignored).
GCDedupe(g) ==
    /\ AtDuplicate(g)
    /\ LET name == Head(gc[g].scan) IN
       IF Named(files, name) = {}
       THEN UNCHANGED files
       ELSE \E f \in Named(files, name) : files' = files \ {f}
    /\ gc' = [gc EXCEPT ![g].pc = "mark"]
    /\ UNCHANGED <<pc, arg, written, ret, calls, rcv, now, ctime>>

\* Files.Remove is given the bare filename, not a selector document: the
\* driver may refuse it, and the pass returns "cannot remove duplicate blob".
GCDedupeFails(g) ==
    /\ AtDuplicate(g)
    /\ gc' = [gc EXCEPT ![g].pc = "done", ![g].err = "dedupe"]
    /\ UNCHANGED <<files, pc, arg, written, ret, calls, rcv, now, ctime>>

\* The rest of the loop body: a name without the blob prefix is skipped; the
\* name becomes previousBlob; a hash the filter holds is skipped; otherwise
\* UpdateAll(filename = name and createtime < before, $set filename =
\* "deleted").
GCMark(g) ==
    /\ \/ gc[g].pc = "mark"
       \/ gc[g].pc = "iter" /\ gc[g].scan # <<>> /\ ~AtDuplicate(g)
    /\ LET name == Head(gc[g].scan) IN
       IF ~IsBlob(name)
       THEN /\ gc' = [gc EXCEPT ![g].pc = "iter", ![g].scan = Tail(@)]
            /\ UNCHANGED files
       ELSE /\ gc' = [gc EXCEPT ![g].pc = "iter", ![g].scan = Tail(@),
                                ![g].prev = name]
            /\ IF FilterLookup(gc[g].filter, HashOfName(name))
               THEN UNCHANGED files
               ELSE files' = { IF f.filename = name /\ Older(f, gc[g].before)
                               THEN [f EXCEPT !.filename = Deleted] ELSE f
                               : f \in files }
    /\ UNCHANGED <<pc, arg, written, ret, calls, rcv, now, ctime>>

\* The scan is over: fs.Remove("deleted") deletes every document of that
\* name, and the pass returns nil.
GCSweep(g) ==
    /\ gc[g].pc = "iter"
    /\ gc[g].scan = <<>>
    /\ files' = files \ Named(files, Deleted)
    /\ gc' = [gc EXCEPT ![g].pc = "done"]
    /\ UNCHANGED <<pc, arg, written, ret, calls, rcv, now, ctime>>

----------------------------------------------------------------------------------------------------------------------------------------
(* The specifications of the garbage-collecting store: NumCreators clients *)
(* and one CollectGarbage pass, with any live set, filter and cutoff,      *)
(* started at any moment.  In SpecGC every client calls Create once; in    *)
(* SpecGCCalls the clients call it up to GCCalls times all together.       *)

InitGCWith(ps, gs) ==
    /\ files = {}
    /\ pc = [p \in ps |-> "idle"]
    /\ arg = [p \in ps |-> [h |-> 0, r |-> NoReader, pos |-> 0]]
    /\ written = [p \in ps |-> <<>>]
    /\ ret = [p \in ps |-> NoRet]
    /\ calls = [p \in ps |-> 0]
    /\ held = [p \in ps |-> [h \in Hashes |-> 0]]
    /\ rogue = FALSE
    /\ now = 0
    /\ ctime = [p \in ps |-> 0]
    /\ gc = [g \in gs |-> NoPass]

InitGC == InitGCWith(1 .. NumCreators, {1})

\* The reader of a client that uploads the blob of hash h.
Upload(h) == [data |-> DataOf(h), fails |-> FALSE]

NextGC ==
    \/ \E p \in Procs, h \in Hashes : calls[p] = 0 /\ GCCreateTouch(p, h, Upload(h))
    \/ \E p \in Procs : GCCreateWrite(p)
    \/ \E p \in Procs : GCCreateClose(p)
    \/ Tick
    \/ \E g \in Passes, filter \in SUBSET Hashes, refs \in SUBSET Hashes, before \in 1 .. MaxTime :
          GCBegin(g, refs, filter, before)
    \/ \E g \in Passes : GCDedupe(g)
    \/ \E g \in Passes : GCDedupeFails(g)
    \/ \E g \in Passes : GCMark(g)
    \/ \E g \in Passes : GCSweep(g)

SpecGC == InitGC /\ [][NextGC]_vars

MayCallGC == SumCalls(Procs) < GCCalls

NextGCCalls ==
    \/ MayCallGC /\ \E p \in Procs, h \in Hashes : GCCreateTouch(p, h, Upload(h))
    \/ \E p \in Procs : GCCreateWrite(p)
    \/ \E p \in Procs : GCCreateClose(p)
    \/ Tick
    \/ \E g \in Passes, filter \in SUBSET Hashes, refs \in SUBSET Hashes, before \in 1 .. MaxTime :
          GCBegin(g, refs, filter, before)
    \/ \E g \in Passes : GCDedupe(g)
    \/ \E g \in Passes : GCDedupeFails(g)
    \/ \E g \in Passes : GCMark(g)
    \/ \E g \in Passes : GCSweep(g)

SpecGCCalls == InitGC /\ [][NextGCCalls]_vars

\* SpecGCTwo: as SpecGC, with two CollectGarbage passes, each called at any
\* moment with its own live set, filter and cutoff.
InitGCTwo == InitGCWith(1 .. NumCreators, {1, 2})

SpecGCTwo == InitGCTwo /\ [][NextGC]_vars

\* No Create is in progress.
NoCreateRunning == \A p \in Procs : pc[p] = "idle"

\* No CollectGarbage pass is in progress.
NoPassRunning == \A g \in Passes : gc[g].pc \in {"idle", "done"}

\* SpecGCQuiet: as SpecGC, but the pass is called when no Create is in
\* progress and no Create is called while the pass is in progress.
NextGCQuiet ==
    \/ NoPassRunning /\ \E p \in Procs, h \in Hashes :
          calls[p] = 0 /\ GCCreateTouch(p, h, Upload(h))
    \/ \E p \in Procs : GCCreateWrite(p)
    \/ \E p \in Procs : GCCreateClose(p)
    \/ Tick
    \/ NoCreateRunning /\
       \E g \in Passes, filter \in SUBSET Hashes, refs \in SUBSET Hashes, before \in 1 .. MaxTime :
          GCBegin(g, refs, filter, before)
    \/ \E g \in Passes : GCDedupe(g)
    \/ \E g \in Passes : GCDedupeFails(g)
    \/ \E g \in Passes : GCMark(g)
    \/ \E g \in Passes : GCSweep(g)

SpecGCQuiet == InitGC /\ [][NextGCQuiet]_vars

----------------------------------------------------------------------------
(* Properties of the reference-counting store under the general            *)
(* specification                                                           *)

\* Some client holds a reference to h: one of its Creates of h returned nil
\* and it has not started the matching Remove.
Holders(h) == { p \in Procs : held[p][h] > 0 }

\* C1: as long as no Remove has been issued by a client without a reference
\* of its own, whenever some client holds a reference to h exactly one
\* document exists under "blob-"+h and its content is the content hashing
\* to h (so it has been neither renamed to a tombstone nor deleted).
C1_HeldBlobExists ==
    ~rogue =>
        \A h \in Hashes :
            Holders(h) # {} =>
                \E f \in files :
                    /\ Named(files, hashName(h)) = {f}
                    /\ f.data = DataOf(h)
                    /\ f.refcount >= Cardinality(Holders(h))

\* A client holds a reference to h after the Remove(h) of another client,
\* which held one too, has returned.
C1_Witness ==
    /\ ~rogue
    /\ \E h \in Hashes, p \in Procs, q \in Procs :
          /\ p # q
          /\ held[p][h] > 0
          /\ pc[q] = "idle" /\ ret[q].op = "Remove" /\ ret[q].err = "nil"
          /\ arg[q].h = h

\* C5: every document visible under a content key "blob-"+h holds the whole
\* content whose hash is h, and the stream of a successful Open(h) is over
\* that content.
C5_VisibleIsVerified ==
    /\ \A f \in files : \A h \in Hashes :
          f.filename = hashName(h) => f.data = DataOf(h) /\ Hash(f.data) = h
    /\ \A p \in Procs :
          (ret[p].op = "Open" /\ ret[p].err = "nil") =>
              ret[p].data = DataOf(arg[p].h)

\* A Create given mismatched data is half way through its reader while a
\* blob is visible and has been opened.
C5_Witness ==
    \E p \in Procs, q \in Procs :
        /\ pc[p] = "copy" /\ arg[p].pos = 1
        /\ Hash(arg[p].r.data) # arg[p].h
        /\ Hash(written[p]) = arg[p].h
        /\ ret[q].op = "Open" /\ ret[q].err = "nil" /\ arg[q].h = arg[p].h

\* The document under name in fs, once p's step has incremented it in fs2.
Incremented(fs, fs2, name) ==
    \E f \in Named(fs, name) :
        /\ Named(fs, name) = {f}
        /\ fs2 = (fs \ {f}) \cup { [f EXCEPT !.refcount = f.refcount + 1] }

\* C10, for the step of client p that ends or continues its Create.
C10_Step(p) ==
    LET blobRef == hashName(arg[p].h)
        found == Named(files, blobRef) # {}
        returns == pc[p] \in {"inc", "copy", "close", "inc2"} /\ pc'[p] = "idle"
    IN  /\ (pc[p] = "inc" /\ pc'[p] # "inc") =>
               /\ found <=> (pc'[p] = "idle" /\ ret'[p].exists)
               /\ found => /\ ret'[p] = CreateRet(TRUE, "nil", 0)
                           /\ written'[p] = <<>>
                           /\ Incremented(files, files', blobRef)
        /\ returns => (ret'[p].exists <=> (pc[p] = "inc" /\ found))
        /\ (returns /\ pc[p] = "close") =>
               /\ ret'[p] = CreateRet(FALSE, "nil", Len(arg[p].r.data))
               /\ \E f \in files' \ files :
                     f.filename = blobRef /\ f.data = arg[p].r.data /\ f.refcount = 1
        /\ (returns /\ pc[p] = "inc2" /\ found) =>
               /\ ret'[p] = CreateRet(FALSE, "nil", Len(arg[p].r.data))
               /\ HashMatches(arg[p].r.data, arg[p].h)
               /\ Incremented(files, files', blobRef)

\* C10: Create returns alreadyExists=true exactly when its first increment
\* found a document, having read nothing and having raised the count by one;
\* it returns (false, nil) when its own bytes were committed and when, after a
\* duplicate-key error on commit, its fallback increment succeeded, in both
\* cases having read and verified all of its reader.
C10_AlreadyExists == [][\A p \in Procs : C10_Step(p)]_vars

\* One Create has returned (true, nil) and another, having lost the commit
\* race, (false, nil) after reading all of its reader.
C10_Witness ==
    \E p \in Procs, q \in Procs, f \in files :
        /\ p # q
        /\ ret[p] = CreateRet(TRUE, "nil", 0)
        /\ ret[q].op = "Create"
        /\ ret[q] = CreateRet(FALSE, "nil", Len(DataOf(arg[q].h)))
        /\ f.filename = hashName(arg[q].h)
        /\ f.id[1] = p
        /\ f.refcount = 3

\* During a Create whose reader yields, without error, bytes that do not
\* hash to the claimed hash.
Mismatched(p) ==
    /\ pc[p] \in {"inc", "copy", "close", "inc2"}
    /\ ~arg[p].r.fails
    /\ Hash(arg[p].r.data) # arg[p].h

\* C6, for the steps of client p: a mismatched Create that finds h absent at
\* its first increment copies its reader and returns (false, checksum
\* mismatch); none of its steps changes the collection, and no chunk of its
\* file is left behind.
C6_Step(p) ==
    LET absent == Named(files, hashName(arg[p].h)) = {}
        mine == pc'[p] # pc[p] \/ arg'[p] # arg[p]
    IN  (Mismatched(p) /\ mine /\ (pc[p] = "inc" => absent)) =>
            /\ files' = files
            /\ pc[p] \in {"inc", "copy"}
            /\ pc'[p] \in {"copy", "idle"}
            /\ pc'[p] = "idle" =>
                  /\ ret'[p] = CreateRet(FALSE, "mismatch", Len(arg[p].r.data))
                  /\ written'[p] = <<>>

\* C6: from a state in which h is absent, a Create of h whose bytes do not
\* hash to h returns (false, checksum mismatch) and leaves every document of
\* the store as it was.
C6_MismatchRejected == [][\A p \in Procs : C6_Step(p)]_vars

\* A mismatched Create has returned its error while the hash it named is
\* absent and another blob is stored.
C6_Witness ==
    \E p \in Procs :
        /\ ret[p].op = "Create" /\ ret[p].err = "mismatch" /\ pc[p] = "idle"
        /\ Named(files, hashName(arg[p].h)) = {}
        /\ files # {}

\* C9 as claimed, for the step of client p: a Remove that finds no document
\* under h's key returns nil and changes nothing.
C9_StepNil(p) ==
    (pc[p] = "dec" /\ pc'[p] # "dec" /\ Named(files, hashName(arg[p].h)) = {}) =>
        /\ pc'[p] = "idle"
        /\ ret'[p] = RemoveRet("nil")
        /\ files' = files

\* C9 (as claimed): Remove of an absent hash is a no-op that succeeds.
C9_RemoveAbsentNil == [][\A p \in Procs : C9_StepNil(p)]_vars

C9_StepNotFound(p) ==
    (pc[p] = "dec" /\ pc'[p] # "dec" /\ Named(files, hashName(arg[p].h)) = {}) =>
        /\ pc'[p] = "idle"
        /\ ret'[p] = RemoveRet("notfound")
        /\ files' = files

\* C9 (amended): Remove of an absent hash changes nothing and returns the
\* not-found error, each time it is repeated.
C9_RemoveAbsentNotFound == [][\A p \in Procs : C9_StepNotFound(p)]_vars

\* A client has removed the last reference of a blob and then called Remove
\* for the same hash again, which found nothing.
C9_Witness ==
    \E p \in Procs :
        /\ pc[p] = "idle" /\ ret[p] = RemoveRet("notfound")
        /\ calls[p] = 3
        /\ files = {}

\* C12, for the step in which client p calls Check(h).
C12_Step(p) ==
    LET h == arg'[p].h
        stored == Named(files, hashName(h))
    IN  (pc[p] = "idle" /\ calls'[p] # calls[p] /\ ret'[p].op = "Check") =>
            /\ files' = files
            /\ stored # {} =>
                  /\ ret'[p] = CheckRet(TRUE, Len(DataOf(h)))
                  /\ \A f \in stored : Len(f.data) = ret'[p].size
            /\ stored = {} => ret'[p] = CheckRet(FALSE, 0)

\* C12: Check(h) leaves every document as it was, and returns (true, size
\* of the stored content, nil) when a document exists under "blob-"+h at that
\* moment and (false, 0, nil) when none does.
C12_CheckProbes == [][\A p \in Procs : C12_Step(p)]_vars

\* Check has returned (false, 0, nil) for a hash that another client had
\* created and then removed.
C12_Witness ==
    \E p \in Procs, q \in Procs :
        /\ p # q /\ ~rogue
        /\ ret[p] = CheckRet(FALSE, 0)
        /\ ret[q] = RemoveRet("nil") /\ pc[q] = "idle"
        /\ arg[q].h = arg[p].h
        /\ calls[q] = 2

\* Client q is the only holder of h, with one reference, and no client but
\* p is inside a Remove of h.
OnlyHolder(q, p, h) ==
    /\ ~rogue
    /\ held[q][h] = 1
    /\ \A r \in Procs \ {q} : held[r][h] = 0
    /\ \A r \in Procs \ {p} :
          ~(pc[r] \in {"dec", "rename", "delete"} /\ arg[r].h = h)

\* C15, for the rename step of client p's Remove.
C15_Step(p) ==
    LET h == arg[p].h
        stored == Named(files, hashName(h))
    IN  (/\ pc[p] = "rename" /\ pc'[p] # "rename"
         /\ \E f \in stored : f.refcount # 0)
        => /\ files' = files
           /\ pc'[p] = "idle"
           /\ ret'[p] = RemoveRet("nil")
           /\ \A q \in Procs \ {p} :
                 OnlyHolder(q, p, h) =>
                     \E f \in files' :
                         /\ Named(files', hashName(h)) = {f}
                         /\ f.refcount = 1
                         /\ f.data = DataOf(h)

\* C15: when a Create has incremented the count between the decrement to 0
\* of a Remove and its rename, the rename matches nothing: Remove returns
\* nil, no document is changed or deleted, and the document stays under its
\* key with its content and, the creator being the only holder, count 1.
C15_RenameNotApplied == [][\A p \in Procs : C15_Step(p)]_vars

\* A Remove has decremented the count to 0 and is about to rename, and a
\* Create of the other client has since raised the count to 1.
C15_Witness ==
    \E p \in Procs, q \in Procs, f \in files :
        /\ p # q
        /\ pc[p] = "rename"
        /\ f.filename = hashName(arg[p].h) /\ f.refcount = 1
        /\ f.id[1] = p
        /\ pc[q] = "idle" /\ arg[q].h = arg[p].h
        /\ ret[q] = CreateRet(TRUE, "nil", 0)
        /\ OnlyHolder(q, p, arg[p].h)

\* C16, for the steps of client p's Create.
C16_Step(p) ==
    LET blobRef == hashName(arg[p].h)
        mine == pc'[p] # pc[p] \/ arg'[p] # arg[p]
        race == mine /\ pc'[p] = "idle" /\ ret'[p].err = "race"
    IN  /\ race =>
              /\ pc[p] = "inc2"
              /\ Named(files, blobRef) = {}
              /\ ret'[p] = CreateRet(FALSE, "race", Len(arg[p].r.data))
              /\ files' = files
              /\ held' = held
              /\ written'[p] = <<>>
              /\ \A f \in files' : f.id # NewId(p, calls[p])
        /\ (mine /\ pc[p] = "inc") => pc'[p] \in {"copy", "idle"}
        /\ (mine /\ pc[p] = "copy") => pc'[p] \in {"copy", "close", "idle"}
        /\ (mine /\ pc[p] = "copy") =>
              (arg[p].pos = Len(arg[p].r.data) <=> pc'[p] # "copy")
        /\ (mine /\ pc[p] = "close") =>
              /\ pc'[p] \in {"inc2", "idle"}
              /\ pc'[p] = "inc2" <=> Named(files, blobRef) # {}
        /\ (mine /\ pc[p] = "inc2") => pc'[p] = "idle"
        /\ pc[p] \in {"inc", "copy", "close", "inc2"} => mine \/ pc'[p] = pc[p]

\* A Create whose reader is exhausted can always take its next step.
C16_NeverBlocked ==
    \A p \in Procs :
        /\ (pc[p] = "copy" /\ arg[p].pos = Len(arg[p].r.data)) => ENABLED CreateVerify(p)
        /\ pc[p] = "close" => ENABLED CreateClose(p)
        /\ pc[p] = "inc2" => ENABLED CreateInc2(p)

\* C16: Create returns the race error only from its fallback increment,
\* reached only after a duplicate-key error of its commit, when that
\* increment finds no document; it then returns at once, having changed no
\* document, left no document or chunk of its own and taken no reference.
\* A Create makes one increment, copies its reader, and once the reader is
\* exhausted makes one commit and at most one more increment, each of which
\* it can always take, and returns.
C16_RaceError == [](C16_NeverBlocked) /\ [][\A p \in Procs : C16_Step(p)]_vars

\* A Create has returned the race error: the other client's Remove deleted
\* the blob between the failed commit and the fallback increment.
C16_Witness ==
    \E p \in Procs, q \in Procs :
        /\ p # q
        /\ pc[p] = "idle" /\ ret[p].err = "race"
        /\ ret[p] = CreateRet(FALSE, "race", Len(DataOf(arg[p].h)))
        /\ pc[q] = "idle" /\ ret[q] = RemoveRet("nil") /\ arg[q].h = arg[p].h
        /\ files = {}
        /\ \A h \in Hashes : held[p][h] = 0

\* C18 as claimed, for the steps of client p: a mismatched Create returns
\* the checksum-mismatch error and registers no reference.
C18_StepAlways(p) ==
    (Mismatched(p) /\ pc'[p] = "idle") =>
        /\ ret'[p].err = "mismatch"
        /\ files' = files
        /\ held' = held

\* C18 (as claimed): in every store state a Create whose bytes do not hash
\* to h fails with the checksum-mismatch error and the count of h's document
\* is not increased.
C18_MismatchAlwaysFails == [][\A p \in Procs : C18_StepAlways(p)]_vars

\* C18 amended, for the steps of client p.
C18_Step(p) ==
    LET h == arg[p].h
        blobRef == hashName(h)
        found == Named(files, blobRef) # {}
        mine == pc'[p] # pc[p] \/ arg'[p] # arg[p]
    IN  (Mismatched(p) /\ mine) =>
            /\ pc[p] \in {"inc", "copy"}
            /\ (pc[p] = "inc" /\ found) =>
                  /\ pc'[p] = "idle"
                  /\ ret'[p] = CreateRet(TRUE, "nil", 0)
                  /\ Incremented(files, files', blobRef)
                  /\ held'[p][h] = held[p][h] + 1
            /\ (pc[p] = "inc" /\ ~found) => pc'[p] = "copy"
            /\ ~(pc[p] = "inc" /\ found) =>
                  /\ files' = files
                  /\ held' = held
                  /\ pc'[p] = "idle" =>
                        ret'[p] = CreateRet(FALSE, "mismatch", Len(arg[p].r.data))

\* C18 (amended): a Create whose bytes do not hash to h fails with the
\* checksum-mismatch error, changing no document and registering no
\* reference, when its increment finds no document under h's key; when a
\* blob for h is stored it reads nothing, increments the count and returns
\* (true, nil).
C18_MismatchUnlessStored == [][\A p \in Procs : C18_Step(p)]_vars

\* A Create of h with bytes that do not hash to h is about to make its
\* increment while a blob for h is stored.
C18_Witness ==
    \E p \in Procs :
        /\ pc[p] = "inc"
        /\ Mismatched(p)
        /\ \E f \in Named(files, hashName(arg[p].h)) : f.refcount = 1

\* The tombstone name of p's Remove call.
Tombstone(p) == NewName(p, calls[p])

\* The conditional rename of p's Remove of h has succeeded, and fs.Remove
\* has not acted yet.
Pending(p, h) ==
    /\ pc[p] = "delete"
    /\ arg[p].h = h
    /\ Named(files, Tombstone(p)) # {}

\* The record of h is tombstoned and no blob is stored under the key of h.
Tombstoned(h) ==
    /\ Named(files, hashName(h)) = {}
    /\ \E p \in Procs : Pending(p, h)

\* C21, state part: no two documents share a filename, and the tombstone
\* name of a Remove whose rename succeeded is no content key and no other
\* call's tombstone name.
C21_Unique ==
    /\ \A f \in files, g \in files : f.filename = g.filename => f = g
    /\ \A p \in Procs :
        pc[p] = "delete" =>
            /\ \A h \in Hashes : Tombstone(p) # hashName(h)
            /\ \A q \in Procs \ {p} :
                 pc[q] = "delete" => Tombstone(q) # Tombstone(p)

\* C21, step part, for the calls of p.
C21_Step(p) ==
    \* the rename succeeds: the name was unused, the record carries it and
    \* nothing is left under the content key
    /\ (pc[p] = "rename" /\ pc'[p] = "delete") =>
          /\ Named(files, Tombstone(p)) = {}
          /\ Cardinality(Named(files', Tombstone(p))) = 1
          /\ Named(files', hashName(arg[p].h)) = {}
    \* Open, Check and Create's increment by p find nothing under the key
    \* of a tombstoned record
    /\ (pc[p] = "idle" /\ calls'[p] # calls[p] /\ ret'[p].op = "Open"
            /\ Tombstoned(arg'[p].h)) =>
          ret'[p] = OpenRet("notfound", <<>>)
    /\ (pc[p] = "idle" /\ calls'[p] # calls[p] /\ ret'[p].op = "Check"
            /\ Tombstoned(arg'[p].h)) =>
          ret'[p] = CheckRet(FALSE, 0)
    /\ (pc[p] = "inc" /\ pc'[p] # "inc" /\ Tombstoned(arg[p].h)) =>
          /\ pc'[p] = "copy"
          /\ files' = files
    \* the blob a Create commits is a new record
    /\ (pc[p] = "close" /\ pc'[p] # "close" /\ files' # files) =>
          \A g \in files' \ files :
              /\ g.filename = hashName(arg[p].h)
              /\ \A f \in files : f.id # g.id
    \* a Remove that returns nil leaves no record under its tombstone name
    /\ (pc[p] = "delete" /\ pc'[p] # "delete") =>
          /\ pc'[p] = "idle"
          /\ ret'[p] = RemoveRet("nil")
    /\ (pc[p] # "idle" /\ pc'[p] = "idle" /\ ret'[p] = RemoveRet("nil")) =>
          Named(files', Tombstone(p)) = {}

\* A tombstoned record is never changed or renamed back: it stays as it is
\* until it is deleted.
C21_Stays ==
    \A f \in files :
        f.filename[1] = "deleted" =>
            \A g \in files' : g.id = f.id => g = f

\* C21: when the conditional rename of Remove succeeds, the record is from
\* then on not to be found under its content key (Open and Check report the
\* key absent, Create's increment finds nothing and the Create commits a new
\* record), the tombstone name is shared with no content key and no other
\* document, and the tombstoned record is deleted before Remove returns nil.
C21_Tombstone ==
    /\ [](C21_Unique)
    /\ [][C21_Stays /\ \A p \in Procs : C21_Step(p)]_vars

\* p's Remove has renamed the record it created and not yet deleted it,
\* while the blob a Create of q committed since is stored under the same key.
C21_Witness ==
    \E p \in Procs : \E q \in Procs \ {p} :
        /\ pc[p] = "delete"
        /\ \E f \in Named(files, Tombstone(p)) : f.id = NewId(p, 1)
        /\ pc[q] = "idle"
        /\ ret[q] = CreateRet(FALSE, "nil", ret[q].nread)
        /\ \E g \in Named(files, hashName(arg[p].h)) : g.id = NewId(q, 1)

----------------------------------------------------------------------------
(* Properties of the sequential specification *)

\* C4, state part: between calls, as long as no prefix of the calls had more
\* Removes than Creates of h, the blob is present exactly when more Creates
\* than Removes were issued, with the difference as its reference count.
C4_Balance ==
    \A p \in Procs :
        (pc[p] = "idle" /\ ~rogue) =>
            \A h \in Hashes :
                /\ (Named(files, hashName(h)) # {}) <=> (held[p][h] > 0)
                /\ \A f \in Named(files, hashName(h)) :
                      f.refcount = held[p][h] /\ f.data = DataOf(h)

\* C4, step part: a Create that finds the blob absent returns (false, nil),
\* one that finds it present returns (true, nil), and every Remove returns
\* nil.
C4_Step(p) ==
    LET found == Named(files, hashName(arg[p].h)) # {} IN
    ~rogue =>
        /\ (pc[p] = "inc" /\ found) =>
              pc'[p] = "idle" /\ ret'[p] = CreateRet(TRUE, "nil", 0)
        /\ (pc[p] = "inc" /\ ~found) => pc'[p] = "copy"
        /\ pc[p] = "copy" => pc'[p] \in {"copy", "close"}
        /\ pc[p] = "close" =>
              /\ pc'[p] = "idle"
              /\ ret'[p] = CreateRet(FALSE, "nil", Len(DataOf(arg[p].h)))
        /\ (pc[p] \in {"dec", "rename", "delete"} /\ pc'[p] = "idle") =>
              ret'[p] = RemoveRet("nil")

\* C4: sequential reference counting.
C4_SequentialCounting == [](C4_Balance) /\ [][\A p \in Procs : C4_Step(p)]_vars

\* Create, Create, Remove, Remove, Create of one hash: the blob has come
\* back with one reference.
C4_Witness ==
    \E p \in Procs, h \in Hashes :
        /\ ~rogue /\ pc[p] = "idle" /\ calls[p] = 5
        /\ ret[p] = CreateRet(FALSE, "nil", Len(DataOf(h)))
        /\ arg[p].h = h
        /\ held[p][h] = 1
        /\ \E f \in files : f.id = NewId(p, 5)

----------------------------------------------------------------------------
(* Properties of the simultaneous uploads *)

UploadsDone == \A p \in Procs : pc[p] = "idle" /\ calls[p] = 1

\* C2: once all the simultaneous Creates have returned, none has returned
\* an error, those that read their reader (their first increment failed)
\* report alreadyExists=false, and exactly one document exists under the
\* key, with the content and a reference count equal to their number.
C2_UploadsConverge ==
    UploadsDone =>
        /\ \A p \in Procs :
              /\ ret[p].err = "nil"
              /\ ret[p].nread > 0 => (~ret[p].exists /\ ret[p].nread = Len(UploadData))
        /\ \E f \in files :
              /\ files = {f}
              /\ f.filename = hashName(UploadHash)
              /\ f.data = UploadData
              /\ f.refcount = Cardinality(Procs)

\* All uploads have returned and each of them had failed its first
\* increment and read its whole reader.
C2_Witness ==
    /\ UploadsDone
    /\ \A p \in Procs : ret[p].nread = Len(UploadData)

----------------------------------------------------------------------------
(* Properties of the create/remove stress workload *)

\* C3: after all workers have finished no document exists under the key.
C3_AllRemoved == TestDone => Named(files, hashName(UploadHash)) = {}

C11_Step(p) ==
    LET absent == Named(files, hashName(UploadHash)) = {} IN
    (pc[p] # "idle" /\ pc'[p] = "idle") =>
        /\ ret'[p].err \in {"nil", "race", "notfound"}
        /\ ret'[p].err = "race" <=> (pc[p] = "inc2" /\ absent)
        /\ ret'[p].err = "notfound" <=> (pc[p] = "dec" /\ absent)
        /\ ret'[p].err = "notfound" => rogue
        /\ ret'[p].err = "race" => ret'[p] = CreateRet(FALSE, "race", Len(UploadData))

C17_CountNonNegative ==
    \A h \in Hashes : \A f \in Named(files, hashName(h)) : f.refcount \in Nat

----------------------------------------------------------------------------
(* Properties of the garbage-collecting store.                             *)

\* The pass g has been called and has not returned.
Running(g) == gc[g].pc \in {"iter", "mark"}

\* C7: while a CollectGarbage pass runs and after it, no step removes the
\* last document under "blob-"+h of a hash h that its filter holds (the
\* filter holds every hash sent on refs, and any others), whatever the
\* createtime of the documents and whatever the clients' Creates do.
C7_Step ==
    \A g \in Passes, h \in Hashes :
        (/\ gc[g].pc # "idle"
         /\ h \in gc[g].filter
         /\ Named(files, hashName(h)) # {})
        => Named(files', hashName(h)) # {}

C7_LiveBlobKept == [][C7_Step]_vars

\* A pass has returned nil after removing a duplicate of a blob its filter
\* holds: two clients each inserted a document for h, one document is left.
C7_Witness ==
    \E g \in Passes, h \in Hashes, p \in Procs, q \in Procs :
        /\ p # q
        /\ gc[g].pc = "done" /\ gc[g].err = "nil"
        /\ h \in gc[g].filter
        /\ arg[p].h = h /\ ret[p] = CreateRet(FALSE, "nil", Len(DataOf(h)))
        /\ arg[q].h = h /\ ret[q] = CreateRet(FALSE, "nil", Len(DataOf(h)))
        /\ Cardinality(Named(files, hashName(h))) = 1

\* C8: while a CollectGarbage(refs, before) pass runs, a blob that has a
\* document with createtime not older than before keeps a document under
\* "blob-"+h at every step, so that Open(h) succeeds when the pass returns.
C8_Step ==
    \A g \in Passes, h \in Hashes :
        (/\ Running(g)
         /\ \E f \in Named(files, hashName(h)) : ~Older(f, gc[g].before))
        => Named(files', hashName(h)) # {}

C8_FreshBlobSurvives == [][C8_Step]_vars

\* The documents of fs that the pass g is to collect: under a name with the
\* blob prefix, older than its cutoff, of a hash its filter does not hold.
Garbage(fs, g) ==
    { f \in fs : /\ IsBlob(f.filename)
                 /\ Older(f, gc[g].before)
                 /\ HashOfName(f.filename) \notin gc[g].filter }

\* C13, for the step in which pass g returns.
C13_Step(g) ==
    (gc[g].pc # "done" /\ gc'[g].pc = "done" /\ gc'[g].err = "nil") =>
        /\ Garbage(files', g) = {}
        /\ Named(files', Deleted) = {}

\* C13: with no Create in progress while it runs, a CollectGarbage pass
\* that returns nil leaves no document that has the blob prefix, is older
\* than before and whose hash its filter does not hold, and no document
\* under the name "deleted".
C13_GarbageCollected == [][\A g \in Passes : C13_Step(g)]_vars

\* A pass has returned nil after collecting the two documents that two
\* clients had left under the key of one blob.
C13_Witness ==
    \E g \in Passes, h \in Hashes, p \in Procs, q \in Procs :
        /\ p # q
        /\ gc[g].pc = "done" /\ gc[g].err = "nil"
        /\ h \notin gc[g].filter
        /\ arg[p].h = h /\ ret[p] = CreateRet(FALSE, "nil", Len(DataOf(h)))
        /\ arg[q].h = h /\ ret[q] = CreateRet(FALSE, "nil", Len(DataOf(h)))
        /\ files = {}

\* C14, for one step: once both passes have been called, a blob whose hash
\* the filters of both hold keeps a document under its key.
C14_Step ==
    \A h \in Hashes :
        (/\ \A g \in Passes : gc[g].pc # "idle" /\ h \in gc[g].filter
         /\ Named(files, hashName(h)) # {})
        => Named(files', hashName(h)) # {}

\* C14: two CollectGarbage passes running concurrently with each other and
\* with Creates never remove the last document of a blob whose hash is in
\* their live sets (here: in the filters of both).
C14_TwoPassesKeepLive == [][C14_Step]_vars

\* C19, for one step: no document of a refreshed blob that is not older
\* than the cutoff is renamed by the pass.
C19_Step ==
    \A g \in Passes : \A h \in gc[g].refreshed :
        \A f \in Named(files, hashName(h)) :
            ~Older(f, gc[g].before) =>
                \A f2 \in files' : f2.id = f.id => f2.filename = f.filename

\* C19, in every state: a record of a refreshed blob exists.
C19_Kept ==
    \A g \in Passes : \A h \in gc[g].refreshed : Named(files, hashName(h)) # {}

\* C19: when a Create(h, r) has returned (true, nil), having set the
\* createtime of the documents under "blob-"+h to a time not older than
\* before, after the pass scanned them as older and before the pass reached
\* them, no step renames such a document, whether h is in the filter or
\* not, and a document exists under the key during the rest of the pass and
\* after it.
C19_RefreshedKept == [](C19_Kept) /\ [][C19_Step]_vars

\* A pass has returned nil; a blob outside its filter that it had scanned
\* as older was refreshed by a Create before the pass reached it, and is
\* still stored.
C19_Witness ==
    \E g \in Passes, h \in Hashes, p \in Procs :
        /\ gc[g].pc = "done" /\ gc[g].err = "nil"
        /\ h \in gc[g].refreshed
        /\ h \notin gc[g].filter
        /\ ret[p] = CreateRet(TRUE, "nil", 0) /\ arg[p].h = h
        /\ Named(files, hashName(h)) # {}

\* The number of documents the query of pass g returned under name.
Scanned(g, name) ==
    Cardinality({ i \in DOMAIN gc[g].scanned : gc[g].scanned[i] = name })

\* C20, for the step in which pass g returns.
C20_Step(g) ==
    (gc[g].pc # "done" /\ gc'[g].pc = "done") =>
        \A h \in gc[g].filter :
            Scanned(g, hashName(h)) >= 2 =>
                Cardinality(Named(files', hashName(h))) = 1

\* C20: with no Create in progress while it runs, a CollectGarbage pass
\* leaves exactly one document under every key that had two or more
\* documents older than the cutoff and whose hash its filter holds.
C20_OneDuplicateLeft == [][\A g \in Passes : C20_Step(g)]_vars

====
